---- MODULE Spec2Model ----
(***************************************************************************)
(* Model of deeppavlov/models/classifiers/sklearn_classifiers.py: the      *)
(* three sklearn-backed classifier adapters LogReg, Svm and RandomForest.  *)
(*                                                                         *)
(* One adapter object is alive at a time (constructing a new one replaces  *)
(* it); adapters share nothing but the file system, which is the variable  *)
(* disk.  Every method call is one action; `last` records the call that    *)
(* was made last, its arguments, the exception it raised (or "None") and   *)
(* the value it returned; `saved` records, for every file, the model       *)
(* handle that the last successful save to it was asked to write.          *)
(***************************************************************************)
EXTENDS Integers, Sequences, FiniteSets, TLC

VARIABLES cls, save_path, load_path, model, disk, last, saved

vars == <<cls, save_path, load_path, model, disk, last, saved>>

(***************************************************************************)
(* Bounds.                                                                 *)
(***************************************************************************)
\* longest feature batch / label batch / number of rows of a query matrix
MaxBatch == 2

(***************************************************************************)
(* Python values.                                                          *)
(***************************************************************************)
\* A path is the sequence of its components; an absolute path starts with
\* "/".  The empty sequence stands for the falsy values None and "".
NoPath == << >>

IsTrue(p) == p # NoPath

\* the objects a per-sample feature vector can be
SampleTypes == {"csr_matrix", "ndarray", "str"}

Labels == {0, 1}

SeqsUpTo(S, n) == UNION {[1..k -> S] : k \in 0..n}

FeatureBatches == SeqsUpTo(SampleTypes, MaxBatch)

LabelBatches == SeqsUpTo(Labels, MaxBatch)

WeightBatches == {"None", "weights"}

\* a stacked matrix: its representation and its number of rows
Matrices == [kind : {"sparse", "dense"}, n : 1..MaxBatch]

NoMatrix == [kind |-> "none", n |-> 0]

(***************************************************************************)
(* The file system.                                                        *)
(***************************************************************************)
Cwd == <<"/", "models">>

ModelFile == <<"/", "models", "model.pkl">>

OldFile == <<"/", "models", "old.pkl">>

OrphanFile == <<"/", "nodir", "model.pkl">>

Files == {ModelFile, OldFile, OrphanFile}

Directories == {<<"/">>, <<"/", "models">>}

\* file contents
Absent == << >>

Garbage == <<"garbage">>

\* pathlib: Path(fname).resolve()
resolve(p) == IF p[1] = "/" THEN p ELSE Cwd \o p

\* pathlib: Path.parent
parent(p) == SubSeq(p, 1, Len(p) - 1)

\* pathlib: Path.is_dir()
is_dir(p) == p \in Directories

\* pathlib: Path.exists()
exists(d, p) == p \in Directories \/ (p \in DOMAIN d /\ d[p] # Absent)

\* joblib.dump(obj, fname): the pickled bytes of obj
dumps(obj) == <<"pickle", obj>>

\* joblib.load(fname): the object, or the exception unpickling raises
joblib_load(d, p) ==
    IF d[p] # Absent /\ d[p][1] = "pickle"
    THEN [exc |-> "None", obj |-> d[p][2]]
    ELSE [exc |-> "UnpicklingError", obj |-> << >>]

joblib_dump(d, obj, p) == [d EXCEPT ![p] = dumps(obj)]

(***************************************************************************)
(* The sklearn estimators (the model handle).                              *)
(*   algo     the estimator class                                          *)
(*   classes_ the attribute classes_, {} while it is not set               *)
(*   coef_    the fitted parameters, << >> while not set, else the         *)
(*            training data <<rows, y, sample_weight>> they were computed  *)
(*            from (the parameters depend on the rows of the matrix, not   *)
(*            on its sparse or dense representation)                       *)
(***************************************************************************)
NoneModel == [algo |-> "None", classes_ |-> {}, coef_ |-> << >>]

sklearn_estimator(a) == [algo |-> a, classes_ |-> {}, coef_ |-> << >>]

LogisticRegression == sklearn_estimator("LogisticRegression")

LinearSVC == sklearn_estimator("LinearSVC")

RandomForestClassifier == sklearn_estimator("RandomForestClassifier")

Range(s) == {s[i] : i \in 1..Len(s)}

\* self.model.fit(X, y): sklearn refits from scratch and mutates the
\* estimator in place.  check_X_y rejects a label batch whose length is not
\* the number of rows before anything is assigned.  LogisticRegression and
\* LinearSVC assign classes_ and then have liblinear reject a batch with a
\* single class, which leaves classes_ new and the parameters old.
model_fit(m, X, y, sample_weight) ==
    IF Len(y) # X.n
    THEN [exc |-> "ValueError", model |-> m]
    ELSE IF m.algo \in {"LogisticRegression", "LinearSVC"} /\ Cardinality(Range(y)) < 2
    THEN [exc |-> "ValueError", model |-> [m EXCEPT !.classes_ = Range(y)]]
    ELSE [exc |-> "None",
          model |-> [m EXCEPT !.classes_ = Range(y),
                              !.coef_ = <<X.n, y, sample_weight>>]]

\* self.model.predict(q_vect): a value determined by the estimator and the
\* batch; an estimator without parameters raises NotFittedError, and None
\* has no attribute predict.
model_predict(m, q) ==
    IF m = NoneModel
    THEN [exc |-> "AttributeError", ret |-> << >>]
    ELSE IF m.coef_ = << >>
    THEN [exc |-> "NotFittedError", ret |-> << >>]
    ELSE [exc |-> "None", ret |-> <<m, q>>]

\* scipy.sparse.vstack(list(x)) / np.vstack(list(x)): the possible outcomes.
\* A batch of one representation stacks to a matrix of that representation
\* with one row per sample; what the library does with a batch of mixed
\* representations is not fixed by this code: it raises or it stacks.
vstack(x, t, kind) ==
    {[exc |-> "None", X |-> [kind |-> kind, n |-> Len(x)]]}
    \cup (IF \A i \in 1..Len(x) : x[i] = t
          THEN {}
          ELSE {[exc |-> "ValueError", X |-> NoMatrix]})

\* the outcome of a fit call that raises exc with the estimator left as m
Raise(exc, m) == [exc |-> exc, model |-> m, ret |-> << >>, lib |-> << >>]

(***************************************************************************)
(* Estimator base class: keeps the configured paths.                       *)
(***************************************************************************)
Estimator_init(sp, lp) == [save_path |-> sp, load_path |-> lp]

(***************************************************************************)
(* class LogReg                                                            *)
(***************************************************************************)
\* LogReg.load forgetting to default-initialize when no load_path is set
LogReg_load_keeps(self_model, self_load_path, d) ==
    IF IsTrue(self_load_path)
    THEN IF exists(d, self_load_path)
         THEN LET r == joblib_load(d, self_load_path)
              IN  IF r.exc # "None"
                  THEN [exc |-> r.exc, model |-> self_model]
                  ELSE [exc |-> "None", model |-> r.obj]
         ELSE [exc |-> "None", model |-> LogisticRegression]
    ELSE [exc |-> "None", model |-> self_model]

\* LogReg.load
LogReg_load(self_model, self_load_path, d) ==
    IF IsTrue(self_load_path)
    THEN IF exists(d, self_load_path)
         THEN LET r == joblib_load(d, self_load_path)
              IN  IF r.exc # "None"
                  THEN [exc |-> r.exc, model |-> self_model]
                  ELSE [exc |-> "None", model |-> r.obj]
         ELSE [exc |-> "None", model |-> LogisticRegression]
    ELSE [exc |-> "None", model |-> LogisticRegression]

\* LogReg.__init__
LogReg_init(sp, lp, d) ==
    LET base == Estimator_init(sp, lp)
        r == LogReg_load(NoneModel, base.load_path, d)
    IN  [exc |-> r.exc, save_path |-> base.save_path,
         load_path |-> base.load_path, model |-> r.model]

\* LogReg.__call__
LogReg_call(self_model, q_vect) ==
    LET answers == model_predict(self_model, q_vect)
    IN  [exc |-> answers.exc, ret |-> answers.ret]

\* LogReg.fit looking at the type of the last sample instead of the first
LogReg_fit_lasttype(self_model, x, y, weights) ==
    IF Len(x) # 0
    THEN IF x[Len(x)] \in {"csr_matrix", "ndarray"}
         THEN LET stacked == IF x[Len(x)] = "csr_matrix"
                             THEN vstack(x, "csr_matrix", "sparse")
                             ELSE vstack(x, "ndarray", "dense")
              IN  {IF s.exc # "None"
                   THEN Raise(s.exc, self_model)
                   ELSE LET r == model_fit(self_model, s.X, y, "None")
                        IN  IF r.exc # "None"
                            THEN Raise(r.exc, r.model)
                            ELSE [exc |-> "None", model |-> r.model, ret |-> <<"self">>,
                                  lib |-> <<s.X, y, "None">>]
                   : s \in stacked}
         ELSE {Raise("NotImplementedError", self_model)}
    ELSE {Raise("ValueError", self_model)}

\* LogReg.fit forwarding the weights to the library as sample_weight
LogReg_fit_weighted(self_model, x, y, weights) ==
    IF Len(x) # 0
    THEN IF x[1] \in {"csr_matrix", "ndarray"}
         THEN LET stacked == IF x[1] = "csr_matrix"
                             THEN vstack(x, "csr_matrix", "sparse")
                             ELSE vstack(x, "ndarray", "dense")
              IN  {IF s.exc # "None"
                   THEN Raise(s.exc, self_model)
                   ELSE LET r == model_fit(self_model, s.X, y, weights)
                        IN  IF r.exc # "None"
                            THEN Raise(r.exc, r.model)
                            ELSE [exc |-> "None", model |-> r.model, ret |-> <<"self">>,
                                  lib |-> <<s.X, y, weights>>]
                   : s \in stacked}
         ELSE {Raise("NotImplementedError", self_model)}
    ELSE {Raise("ValueError", self_model)}

\* LogReg.fit: the set of possible outcomes
LogReg_fit(self_model, x, y, weights) ==
    IF Len(x) # 0
    THEN IF x[1] \in {"csr_matrix", "ndarray"}
         THEN LET stacked == IF x[1] = "csr_matrix"
                             THEN vstack(x, "csr_matrix", "sparse")
                             ELSE vstack(x, "ndarray", "dense")
              IN  {IF s.exc # "None"
                   THEN Raise(s.exc, self_model)
                   ELSE LET r == model_fit(self_model, s.X, y, "None")
                        IN  IF r.exc # "None"
                            THEN Raise(r.exc, r.model)
                            ELSE [exc |-> "None", model |-> r.model, ret |-> <<"self">>,
                                  lib |-> <<s.X, y, "None">>]
                   : s \in stacked}
         ELSE {Raise("NotImplementedError", self_model)}
    ELSE {Raise("ValueError", self_model)}

\* LogReg.save writing a new estimator instead of the one it holds
LogReg_save_default(self_model, self_save_path, d, fname) ==
    LET f == IF ~IsTrue(fname) THEN self_save_path ELSE resolve(fname)
    IN  IF f = NoPath
        THEN [exc |-> "AttributeError", disk |-> d]
        ELSE IF ~is_dir(parent(f))
        THEN [exc |-> "ConfigError", disk |-> d]
        ELSE [exc |-> "None", disk |-> joblib_dump(d, LogisticRegression, f)]

\* LogReg.save
LogReg_save(self_model, self_save_path, d, fname) ==
    LET f == IF ~IsTrue(fname) THEN self_save_path ELSE resolve(fname)
    IN  IF f = NoPath
        THEN [exc |-> "AttributeError", disk |-> d]
        ELSE IF ~is_dir(parent(f))
        THEN [exc |-> "ConfigError", disk |-> d]
        ELSE [exc |-> "None", disk |-> joblib_dump(d, self_model, f)]

(***************************************************************************)
(* class Svm                                                               *)
(***************************************************************************)
\* Svm.load keeping the handle it has when the artifact is missing
Svm_load_keeps(self_model, self_load_path, d) ==
    IF IsTrue(self_load_path)
    THEN IF exists(d, self_load_path)
         THEN LET r == joblib_load(d, self_load_path)
              IN  IF r.exc # "None"
                  THEN [exc |-> r.exc, model |-> self_model]
                  ELSE [exc |-> "None", model |-> r.obj]
         ELSE [exc |-> "None",
               model |-> IF self_model = NoneModel THEN LinearSVC ELSE self_model]
    ELSE [exc |-> "None", model |-> LinearSVC]

\* Svm.load
Svm_load(self_model, self_load_path, d) ==
    IF IsTrue(self_load_path)
    THEN IF exists(d, self_load_path)
         THEN LET r == joblib_load(d, self_load_path)
              IN  IF r.exc # "None"
                  THEN [exc |-> r.exc, model |-> self_model]
                  ELSE [exc |-> "None", model |-> r.obj]
         ELSE [exc |-> "None", model |-> LinearSVC]
    ELSE [exc |-> "None", model |-> LinearSVC]

\* Svm.__init__
Svm_init(sp, lp, d) ==
    LET base == Estimator_init(sp, lp)
        r == Svm_load(NoneModel, base.load_path, d)
    IN  [exc |-> r.exc, save_path |-> base.save_path,
         load_path |-> base.load_path, model |-> r.model]

\* Svm.__call__
Svm_call(self_model, q_vect) ==
    LET classes == model_predict(self_model, q_vect)
    IN  [exc |-> classes.exc, ret |-> classes.ret]

\* Svm.fit: the set of possible outcomes
Svm_fit(self_model, x, y, weights) ==
    IF Len(x) # 0
    THEN IF x[1] \in {"csr_matrix", "ndarray"}
         THEN LET stacked == IF x[1] = "csr_matrix"
                             THEN vstack(x, "csr_matrix", "sparse")
                             ELSE vstack(x, "ndarray", "dense")
              IN  {IF s.exc # "None"
                   THEN Raise(s.exc, self_model)
                   ELSE LET r == model_fit(self_model, s.X, y, "None")
                        IN  IF r.exc # "None"
                            THEN Raise(r.exc, r.model)
                            ELSE [exc |-> "None", model |-> r.model, ret |-> <<"self">>,
                                  lib |-> <<s.X, y, "None">>]
                   : s \in stacked}
         ELSE {Raise("NotImplementedError", self_model)}
    ELSE {Raise("ValueError", self_model)}

\* Svm.save without the check of the parent directory
Svm_save_nocheck(self_model, self_save_path, d, fname) ==
    LET f == IF ~IsTrue(fname) THEN self_save_path ELSE resolve(fname)
    IN  IF f = NoPath
        THEN [exc |-> "AttributeError", disk |-> d]
        ELSE [exc |-> "None", disk |-> joblib_dump(d, self_model, f)]

\* Svm.save
Svm_save(self_model, self_save_path, d, fname) ==
    LET f == IF ~IsTrue(fname) THEN self_save_path ELSE resolve(fname)
    IN  IF f = NoPath
        THEN [exc |-> "AttributeError", disk |-> d]
        ELSE IF ~is_dir(parent(f))
        THEN [exc |-> "ConfigError", disk |-> d]
        ELSE [exc |-> "None", disk |-> joblib_dump(d, self_model, f)]

(***************************************************************************)
(* class RandomForest                                                      *)
(***************************************************************************)
\* RandomForest.load
RandomForest_load(self_model, self_load_path, d) ==
    IF IsTrue(self_load_path)
    THEN IF exists(d, self_load_path)
         THEN LET r == joblib_load(d, self_load_path)
              IN  IF r.exc # "None"
                  THEN [exc |-> r.exc, model |-> self_model]
                  ELSE [exc |-> "None", model |-> r.obj]
         ELSE [exc |-> "None", model |-> RandomForestClassifier]
    ELSE [exc |-> "None", model |-> RandomForestClassifier]

\* RandomForest.__init__
RandomForest_init(sp, lp, d) ==
    LET base == Estimator_init(sp, lp)
        r == RandomForest_load(NoneModel, base.load_path, d)
    IN  [exc |-> r.exc, save_path |-> base.save_path,
         load_path |-> base.load_path, model |-> r.model]

\* RandomForest.__call__ making the batch a dense matrix before predicting
RandomForest_call_dense(self_model, q_vect) ==
    LET classes == model_predict(self_model, [q_vect EXCEPT !.kind = "dense"])
    IN  [exc |-> classes.exc, ret |-> classes.ret]

\* RandomForest.__call__
RandomForest_call(self_model, q_vect) ==
    LET classes == model_predict(self_model, q_vect)
    IN  [exc |-> classes.exc, ret |-> classes.ret]

\* RandomForest.fit without the check for an empty batch: x[0] raises
RandomForest_fit_noempty(self_model, x, y, weights) ==
    IF Len(x) = 0
    THEN {Raise("IndexError", self_model)}
    ELSE IF x[1] \in {"csr_matrix", "ndarray"}
    THEN LET stacked == IF x[1] = "csr_matrix"
                        THEN vstack(x, "csr_matrix", "sparse")
                        ELSE vstack(x, "ndarray", "dense")
         IN  {IF s.exc # "None"
              THEN Raise(s.exc, self_model)
              ELSE LET r == model_fit(self_model, s.X, y, "None")
                   IN  IF r.exc # "None"
                       THEN Raise(r.exc, r.model)
                       ELSE [exc |-> "None", model |-> r.model, ret |-> <<"self">>,
                             lib |-> <<s.X, y, "None">>]
              : s \in stacked}
    ELSE {Raise("NotImplementedError", self_model)}

\* RandomForest.fit: the set of possible outcomes
RandomForest_fit(self_model, x, y, weights) ==
    IF Len(x) # 0
    THEN IF x[1] \in {"csr_matrix", "ndarray"}
         THEN LET stacked == IF x[1] = "csr_matrix"
                             THEN vstack(x, "csr_matrix", "sparse")
                             ELSE vstack(x, "ndarray", "dense")
              IN  {IF s.exc # "None"
                   THEN Raise(s.exc, self_model)
                   ELSE LET r == model_fit(self_model, s.X, y, "None")
                        IN  IF r.exc # "None"
                            THEN Raise(r.exc, r.model)
                            ELSE [exc |-> "None", model |-> r.model, ret |-> <<"self">>,
                                  lib |-> <<s.X, y, "None">>]
                   : s \in stacked}
         ELSE {Raise("NotImplementedError", self_model)}
    ELSE {Raise("ValueError", self_model)}

\* RandomForest.save
RandomForest_save(self_model, self_save_path, d, fname) ==
    LET f == IF ~IsTrue(fname) THEN self_save_path ELSE resolve(fname)
    IN  IF f = NoPath
        THEN [exc |-> "AttributeError", disk |-> d]
        ELSE IF ~is_dir(parent(f))
        THEN [exc |-> "ConfigError", disk |-> d]
        ELSE [exc |-> "None", disk |-> joblib_dump(d, self_model, f)]

(***************************************************************************)
(* Method dispatch on the adapter's class.                                 *)
(***************************************************************************)
Classes == {"LogReg", "Svm", "RandomForest"}

new(c, sp, lp, d) ==
    CASE c = "LogReg" -> LogReg_init(sp, lp, d)
      [] c = "Svm" -> Svm_init(sp, lp, d)
      [] c = "RandomForest" -> RandomForest_init(sp, lp, d)

call(c, m, q) ==
    CASE c = "LogReg" -> LogReg_call(m, q)
      [] c = "Svm" -> Svm_call(m, q)
      [] c = "RandomForest" -> RandomForest_call(m, q)

fit(c, m, x, y, w) ==
    CASE c = "LogReg" -> LogReg_fit(m, x, y, w)
      [] c = "Svm" -> Svm_fit(m, x, y, w)
      [] c = "RandomForest" -> RandomForest_fit(m, x, y, w)

save(c, m, sp, d, fname) ==
    CASE c = "LogReg" -> LogReg_save(m, sp, d, fname)
      [] c = "Svm" -> Svm_save(m, sp, d, fname)
      [] c = "RandomForest" -> RandomForest_save(m, sp, d, fname)

load(c, m, lp, d) ==
    CASE c = "LogReg" -> LogReg_load(m, lp, d)
      [] c = "Svm" -> Svm_load(m, lp, d)
      [] c = "RandomForest" -> RandomForest_load(m, lp, d)

\* the estimator each class default-constructs
Default(c) ==
    CASE c = "LogReg" -> LogisticRegression
      [] c = "Svm" -> LinearSVC
      [] c = "RandomForest" -> RandomForestClassifier

(***************************************************************************)
(* The state machine.                                                      *)
(***************************************************************************)
\* the configuration values and arguments callers pass
SavePaths == {NoPath, ModelFile, OrphanFile}

LoadPaths == {NoPath, ModelFile, OldFile}

SaveNames == {NoPath, <<"model.pkl">>, OrphanFile}

\* last: the call made last.  op is its name, exc the exception it raised,
\* ret what it returned (<< >> for None); kwargs (the <<save_path,
\* load_path>> of a constructor call), x, weights, fname and q_vect are its
\* arguments; lib holds the arguments of the library call
\* self.model.fit(X, y) made by a fit that returned.  The label batch of a
\* fit is recorded there only.
NoCall == [op |-> "None", exc |-> "None", ret |-> << >>,
           kwargs |-> << >>, x |-> << >>,
           weights |-> "None", lib |-> << >>, fname |-> NoPath,
           q_vect |-> NoMatrix]

Init ==
    /\ cls = "None"
    /\ save_path = NoPath
    /\ load_path = NoPath
    /\ model = NoneModel
    /\ disk = [p \in Files |-> IF p = OldFile THEN Garbage ELSE Absent]
    /\ last = NoCall
    /\ saved = [p \in Files |-> NoneModel]

\* a = Class(save_path=sp, load_path=lp); a constructor that raises
\* leaves no new adapter.  One run of the model uses one adapter class.
Construct ==
    \E c \in Classes, sp \in SavePaths, lp \in LoadPaths :
        LET r == new(c, sp, lp, disk)
        IN  /\ cls \in {"None", c}
            /\ last' = [NoCall EXCEPT !.op = "__init__", !.exc = r.exc,
                                      !.kwargs = <<sp, lp>>]
            /\ IF r.exc = "None"
               THEN /\ cls' = c
                    /\ save_path' = r.save_path
                    /\ load_path' = r.load_path
                    /\ model' = r.model
               ELSE UNCHANGED <<cls, save_path, load_path, model>>
            /\ UNCHANGED <<disk, saved>>

\* a(q_vect)
Call ==
    /\ cls # "None"
    /\ \E q \in Matrices :
        LET r == call(cls, model, q)
        IN  last' = [NoCall EXCEPT !.op = "__call__", !.exc = r.exc,
                                   !.ret = r.ret, !.q_vect = q]
    /\ UNCHANGED <<cls, save_path, load_path, model, disk, saved>>

\* a.fit(x, y, weights)
Fit ==
    /\ cls # "None"
    /\ \E x \in FeatureBatches, y \in LabelBatches, w \in WeightBatches :
        \E r \in fit(cls, model, x, y, w) :
            /\ model' = r.model
            /\ last' = [NoCall EXCEPT !.op = "fit", !.exc = r.exc, !.ret = r.ret,
                                      !.x = x, !.weights = w, !.lib = r.lib]
    /\ UNCHANGED <<cls, save_path, load_path, disk, saved>>

\* a.save(fname)
Save ==
    /\ cls # "None"
    /\ \E fname \in SaveNames :
        LET r == save(cls, model, save_path, disk, fname)
        IN  /\ disk' = r.disk
            /\ saved' = [p \in Files |->
                            IF r.disk[p] # disk[p] THEN model ELSE saved[p]]
            /\ last' = [NoCall EXCEPT !.op = "save", !.exc = r.exc, !.fname = fname]
    /\ UNCHANGED <<cls, save_path, load_path, model>>

\* a.load()
Load ==
    /\ cls # "None"
    /\ LET r == load(cls, model, load_path, disk)
       IN  /\ model' = r.model
           /\ last' = [NoCall EXCEPT !.op = "load", !.exc = r.exc]
    /\ UNCHANGED <<cls, save_path, load_path, disk, saved>>

Next == Construct \/ Call \/ Fit \/ Save \/ Load

Spec == Init /\ [][Next]_vars

(***************************************************************************)
(* Properties.                                                             *)
(***************************************************************************)
\* where a save call is to write: the explicit path when one is given, the
\* configured save_path otherwise
Destination(fname, sp) == IF IsTrue(fname) THEN resolve(fname) ELSE sp

\* the handle is a whole one: default-initialized, or fitted with classes_
\* and the parameters coming from the same label batch
Whole(m) ==
    /\ m # NoneModel
    /\ \/ m.classes_ = {} /\ m.coef_ = << >>
       \/ m.coef_ # << >> /\ m.classes_ = Range(m.coef_[2])

\* C1: once an adapter has been constructed it holds a model handle, an
\* estimator and never None, in every state that fit, __call__, save and
\* load calls (raising or not) lead to; no __call__ fails for lack of one.
C1_AlwaysHasHandle ==
    cls # "None" =>
        /\ model # NoneModel
        /\ model.algo \in {"LogisticRegression", "LinearSVC", "RandomForestClassifier"}
        /\ (last.op = "__call__" => last.exc # "AttributeError")

C1_Witness ==
    /\ cls # "None"
    /\ last.op = "fit"
    /\ last.exc # "None"
    /\ saved[ModelFile] # NoneModel
    /\ model # NoneModel

\* C2: an adapter constructed with load_path at a file that a save has
\* written holds the model handle that save was given, and so predicts as
\* that handle does on every batch.
C2_RoundTrip ==
    (/\ last.op = "__init__"
     /\ last.exc = "None"
     /\ IsTrue(load_path)
     /\ saved[load_path] # NoneModel)
    => /\ model = saved[load_path]
       /\ \A q \in Matrices :
            call(cls, model, q) = call(cls, saved[load_path], q)

C2_Witness ==
    /\ last.op = "__init__"
    /\ last.exc = "None"
    /\ load_path = ModelFile
    /\ saved[ModelFile] # NoneModel
    /\ model.coef_ # << >>
    /\ model = saved[ModelFile]

\* C3: load, in the constructor or called later, with load_path unset or
\* with no artifact at load_path raises nothing and leaves a newly
\* default-constructed estimator of the adapter's algorithm as the handle;
\* with an artifact at load_path a load that returns leaves the handle the
\* artifact holds.
C3_LoadDefaults ==
    last.op \in {"load", "__init__"} =>
        LET lp == IF last.op = "__init__" THEN last.kwargs[2] ELSE load_path
        IN  IF IsTrue(lp) /\ exists(disk, lp)
            THEN last.exc = "None" => disk[lp] = dumps(model)
            ELSE last.exc = "None" /\ model = Default(cls)

C3_Witness ==
    /\ last.op = "load"
    /\ last.exc = "None"
    /\ load_path = ModelFile
    /\ disk[ModelFile] = Absent
    /\ model = Default(cls)

\* C4: a save whose destination has no existing parent directory raises
\* ConfigError and writes nothing: the files and the model handle are as
\* before the call.
C4_SaveNoParent ==
    [][(/\ last'.op = "save"
        /\ IsTrue(Destination(last'.fname, save_path))
        /\ ~is_dir(parent(Destination(last'.fname, save_path))))
       => (/\ last'.exc = "ConfigError"
           /\ disk' = disk
           /\ model' = model)]_vars

C4_Witness ==
    /\ last.op = "save"
    /\ last.fname = OrphanFile
    /\ last.exc = "ConfigError"
    /\ disk[OrphanFile] = Absent

\* C5: fit with an empty feature batch raises ValueError, whatever the
\* labels and the weights, and leaves the model handle and the files as
\* they were.
C5_FitEmpty ==
    [][(last'.op = "fit" /\ last'.x = << >>)
       => (/\ last'.exc = "ValueError"
           /\ model' = model
           /\ disk' = disk)]_vars

C5_Witness ==
    /\ last.op = "fit"
    /\ last.x = << >>
    /\ last.weights = "weights"
    /\ last.exc = "ValueError"
    /\ model.coef_ # << >>

\* C6: fit with a non-empty feature batch whose first sample is neither a
\* csr_matrix nor an ndarray raises NotImplementedError whatever the other
\* samples are and leaves the model handle as it was; the matrix a fit
\* hands to the library is sparse exactly if the first sample is a
\* csr_matrix.
C6_FitFirstSampleType ==
    [][last'.op = "fit" =>
        /\ (Len(last'.x) > 0 /\ last'.x[1] \notin {"csr_matrix", "ndarray"})
           => (last'.exc = "NotImplementedError" /\ model' = model)
        /\ last'.lib # << >>
           => last'.lib[1].kind =
                 (IF last'.x[1] = "csr_matrix" THEN "sparse" ELSE "dense")]_vars

C6_Witness ==
    /\ last.op = "fit"
    /\ last.x = <<"str", "ndarray">>
    /\ last.exc = "NotImplementedError"
    /\ model.coef_ # << >>

\* C7: after a fit or a load, raising or not, the model handle is the one
\* held before the call or a whole new one: fitted on the batch, taken from
\* the artifact, or default-initialized.
C7_ReplacedWholesale ==
    [][last'.op \in {"fit", "load"} =>
        \/ model' = model
        \/ last'.op = "fit" /\ last'.exc = "None" /\ Whole(model')
        \/ last'.op = "load" /\ model' = Default(cls)
        \/ /\ last'.op = "load"
           /\ IsTrue(load_path)
           /\ disk[load_path] = dumps(model')]_vars

\* C8: __call__ returns what the predict of the model handle returns on the
\* batch it was given (and raises what it raises), and changes nothing.
C8_CallIsPredict ==
    [][last'.op = "__call__" =>
        /\ [exc |-> last'.exc, ret |-> last'.ret]
             = model_predict(model, last'.q_vect)
        /\ UNCHANGED <<cls, save_path, load_path, model, disk>>]_vars

C8_Witness ==
    /\ last.op = "__call__"
    /\ last.exc = "None"
    /\ last.ret = <<model, last.q_vect>>

C10_SaveOutcomes ==
    [][last'.op = "save" =>
        /\ model' = model
        /\ \/ last'.exc = "ConfigError" /\ disk' = disk
           \/ /\ last'.exc = "None"
              /\ Destination(last'.fname, save_path) \in Files
              /\ disk' = [disk EXCEPT
                            ![Destination(last'.fname, save_path)] = dumps(model)]]_vars

====
